---- MODULE Spec2Model ----
(***************************************************************************)
(* Single-owner instance coordination and the file-based request bridge   *)
(* of the WhatsApp MCP server.                                             *)
(*                                                                         *)
(* Two builds of the bridge exist in the repository and both are modelled, *)
(* selected by the variable "variant":                                     *)
(*   "basic"    - src/src/ipc-bridge.js (the module index.js imports)      *)
(*   "improved" - src/unnamed/part_005, lines 629-1165                     *)
(* The lease ("lock file") handling is the constructor of                  *)
(* WhatsAppMCPServer, whose source is embedded in src/README.md.           *)
(***************************************************************************)
EXTENDS Integers, Sequences, FiniteSets, TLC

VARIABLES
    variant,      \* which build of ipc-bridge runs on both sides
    reqFile,      \* requests/<id>.json, per request id
    respFile,     \* responses/<id>.json, per request id
    call,         \* one sendRequest invocation per request id
    proc,         \* the primary's request processor: "down" or "up"
    ticks,        \* in-flight invocations of the processor's async callback
    dispatched,   \* history: session-handle invocations per request id
    preexisting,  \* history: requests in requests/ since before the processor started
    now,          \* wall clock, milliseconds
    lockFile,     \* /tmp/whatsapp-mcp.lock
    stateFile,    \* /tmp/whatsapp-mcp-state.json
    inst,         \* server instances (one OS process each)
    toolRun,      \* history: the tool call handled last and where it was served
    kind,         \* the entry point each instance was started from
    security,     \* the SecurityManager's allowedContacts and blockedContacts
    sentDirect,   \* history: the chat the send_message tool last sent a message to
    rateLimiter,  \* SecurityManager.rateLimiter: key -> times of the calls let through
    rateLog       \* history: calls of checkRateLimit accepted, per key and time

ipcVars   == <<variant, reqFile, respFile, call, proc, ticks, dispatched,
               preexisting>>
leaseVars == <<now, lockFile, stateFile, inst, toolRun, kind, security, sentDirect,
               rateLimiter, rateLog>>
vars      == <<variant, reqFile, respFile, call, proc, ticks, dispatched,
               preexisting, now, lockFile, stateFile, inst, toolRun, kind, security,
               sentDirect, rateLimiter, rateLog>>

----------------------------------------------------------------------------
(* Bounds of the model *)

MaxCalls == 2        \* sendRequest invocations (request ids 1..MaxCalls)
MaxTicks == 1        \* processor callbacks that may be in flight at once
PollsShort == 1      \* poll iterations that fit in the 30 s deadline (scaled)

Ids   == 1..MaxCalls
Slots == 1..MaxTicks

\* The callbacks of the processor the model keeps track of: one more than the
\* specifications of the mailbox let run, for the specification in which
\* ticks overlap.
TickSlots == 1..(MaxTicks + 1)

----------------------------------------------------------------------------
(* Values *)

Absent     == "ABSENT"          \* a JS undefined / a key missing from the JSON
SentOk     == "sent"            \* { success: true, message: 'Message sent successfully' }
MediaInfo  == "mediaInfo"       \* the list a media query returns
Msgs       == {"boom", ""}      \* error.message of what a session-handle call may throw
RestartMsg == "Server was restarted while processing request"
UnknownMsg == "Unknown operation: frobnicate"
TimeoutMsg == "Request timeout - primary instance may not be running"

Ops      == {"sendMessage", "getMediaFromContact", "frobnicate"}
KnownOps == {"sendMessage", "getMediaFromContact"}

Variants == {"basic", "improved"}

NoReq  == [st |-> "none", id |-> 0, op |-> Absent]
NoResp == [st |-> "none", id |-> 0, result |-> Absent, error |-> Absent]

\* What the session handle may hand back for an operation.
ResultsOf(op) == IF op = "sendMessage" THEN {SentOk} ELSE {MediaInfo}

\* JSON.stringify of { id, result, timestamp } as it is parsed back: a key
\* whose value is undefined is dropped.
JsonResult(id, r) == [st |-> "full", id |-> id, result |-> r, error |-> Absent]
JsonError(id, m)  == [st |-> "full", id |-> id, result |-> Absent, error |-> m]

\* JSON.stringify({ id: requestId, operation, params, timestamp })
JsonRequest(id, op) == [st |-> "full", id |-> id, op |-> op]

\* JS truthiness of a string-or-undefined value.
Truthy(x) == x /= Absent /\ x /= ""

----------------------------------------------------------------------------
(* Request Bridge, proxy side: sendRequest *)

\* const timeout = operation === 'getMediaFromContact' ? 60000 : 30000,
\* counted in poll iterations (one iteration per 100 ms sleep).
PollsLong == 2 * PollsShort

\* the same deadline for every operation
Timeout_Flat(op) == PollsShort

\* const timeout = operation === 'getMediaFromContact' ? 60000 : 30000
Timeout(op) == IF op = "getMediaFromContact" THEN PollsLong ELSE PollsShort

\* a loop without its deadline test
LoopContinues_NoDeadline(c) == c.polls >= 0

\* while (Date.now() - startTime < timeout)
LoopContinues(c) == c.polls < Timeout(c.op)

\* await new Promise(resolve => setTimeout(resolve, 100)): one more iteration
\* of the budget is used up (the counter saturates at the longest deadline).
Sleep(c) == [c EXCEPT !.polls = IF c.polls < PollsLong THEN c.polls + 1 ELSE c.polls]

NewCall == [phase |-> "idle", op |-> Absent, polls |-> 0, outcome |-> "none",
            val |-> Absent, seen |-> "none", seenId |-> 0, seenResult |-> Absent,
            seenError |-> Absent, deadline |-> FALSE, refused |-> FALSE]

Ended(c, outcome, val) == [c EXCEPT !.phase = "ended", !.outcome = outcome, !.val = val, !.polls = 0]

\* fs.writeFileSync(path, data) creates (truncates) the file and then writes the
\* data: another process may see the file while it is still empty.
WriteStates == {"partial", "full"}

\* What can become of fs.writeFileSync(requestFile, ...): the two states a
\* reader may find the file in, or "refused", when requests/ is missing or not
\* writable and open() fails (ENOENT, EACCES) without creating anything.
WriteOutcomes == WriteStates \cup {"refused"}

WriteErrorMsg == "EACCES"
FailedToWrite == "Failed to write request: EACCES"

\* a sendRequest that logs the write error and goes on to poll
AfterWriteError_Swallowed(v, c) == [c EXCEPT !.refused = TRUE, !.phase = "polling"]

\* The write of the request file throws.
\*   basic:    the fs error leaves sendRequest
\*   improved: catch (writeError) { throw new Error(`Failed to write request:
\*             ${writeError.message}`) }, logged and rethrown by the outer catch
AfterWriteError(v, c) ==
    Ended([c EXCEPT !.refused = TRUE], "ioFailure",
          IF v = "basic" THEN WriteErrorMsg ELSE FailedToWrite)

\* sendRequest, up to the first iteration of the loop: the request file is
\* written under a fresh id.
SendRequest(id, op) ==
    /\ call[id].phase = "idle"
    /\ \A j \in Ids : j < id => call[j].phase /= "idle"
    /\ \E w \in WriteOutcomes :
        /\ reqFile' = [reqFile EXCEPT ![id] = CASE w = "full" -> JsonRequest(id, op)
                                                [] w = "partial" -> [NoReq EXCEPT !.st = "partial"]
                                                [] OTHER -> @]
        /\ call' = [call EXCEPT ![id] =
                      CASE w = "full" -> [NewCall EXCEPT !.phase = "polling", !.op = op]
                        [] w = "partial" -> [NewCall EXCEPT !.phase = "writing", !.op = op]
                        [] OTHER -> AfterWriteError(variant, [NewCall EXCEPT !.op = op])]
    /\ UNCHANGED <<variant, respFile, proc, ticks, dispatched, preexisting>>
    /\ UNCHANGED leaseVars

\* the data of the request file reaches the file
FinishRequestWrite(id) ==
    /\ call[id].phase = "writing"
    /\ reqFile' = [reqFile EXCEPT ![id] = JsonRequest(id, call[id].op)]
    /\ call' = [call EXCEPT ![id].phase = "polling"]
    /\ UNCHANGED <<variant, respFile, proc, ticks, dispatched, preexisting>>
    /\ UNCHANGED leaseVars

\* The proxy process is killed while it writes the request file: the file
\* stays as it is.
ProxyCrash(id) ==
    /\ call[id].phase = "writing"
    /\ call' = [call EXCEPT ![id] = [NewCall EXCEPT !.phase = "crashed", !.op = call[id].op]]
    /\ UNCHANGED <<variant, reqFile, respFile, proc, ticks, dispatched, preexisting>>
    /\ UNCHANGED leaseVars

\* a sendRequest that returns the whole response object instead of its result
AfterConsume_WholeRecord(v, c, resp) ==
    Ended([c EXCEPT !.seen = "full", !.seenResult = resp.result, !.seenError = resp.error],
          IF Truthy(resp.error) THEN "remoteError" ELSE "returned", "response")

\* What sendRequest does once the response has been read, parsed and the two
\* files removed.
\*   basic:    if (response.error) throw new Error(response.error);
\*             return response.result;
\*   improved: the same statements, inside the try block of the poll loop,
\*             whose catch logs the error and lets the loop go on.
AfterConsume(v, c, resp) ==
    LET c1 == [c EXCEPT !.seen = "full", !.seenResult = resp.result, !.seenError = resp.error]
    IN  IF Truthy(resp.error)
        THEN IF v = "basic" THEN Ended(c1, "remoteError", resp.error)
                            ELSE Sleep(c1)
        ELSE Ended(c1, "returned", resp.result)

\* One iteration of the poll loop.
PollResponse(id) ==
    LET resp == respFile[id]
        c == [call[id] EXCEPT !.seenId = IF resp.st = "full" THEN resp.id ELSE @]
    IN
    /\ c.phase = "polling"
    /\ LoopContinues(c)
    /\ CASE resp.st = "none" ->
              \* existsSync(responseFile) is false: sleep 100 ms
              /\ call' = [call EXCEPT ![id] = Sleep(c)]
              /\ UNCHANGED <<reqFile, respFile>>
         [] resp.st = "partial" ->
              \* JSON.parse of an incomplete file throws. basic: the SyntaxError
              \* leaves sendRequest; improved: caught, logged, next iteration.
              /\ call' = [call EXCEPT ![id] =
                            IF variant = "basic"
                            THEN Ended([c EXCEPT !.seen = "partial"], "ioFailure", "SyntaxError")
                            ELSE Sleep([c EXCEPT !.seen = "partial"])]
              /\ UNCHANGED <<reqFile, respFile>>
         [] resp.st = "full" ->
              IF variant = "basic" /\ reqFile[id].st = "none"
              THEN \* fs.unlinkSync(requestFile) throws ENOENT
                   /\ call' = [call EXCEPT ![id] =
                                 Ended([c EXCEPT !.seen = "full", !.seenResult = resp.result,
                                                 !.seenError = resp.error], "ioFailure", "ENOENT")]
                   /\ UNCHANGED <<reqFile, respFile>>
              ELSE /\ reqFile' = [reqFile EXCEPT ![id] = NoReq]
                   /\ respFile' = [respFile EXCEPT ![id] = NoResp]
                   /\ call' = [call EXCEPT ![id] = AfterConsume(variant, c, resp)]
    /\ preexisting' = {j \in preexisting : reqFile'[j].st /= "none"}
    /\ UNCHANGED <<variant, proc, ticks, dispatched>>
    /\ UNCHANGED leaseVars

\* The loop ends because the deadline has passed:
\*   if (fs.existsSync(requestFile)) { ... }
DeadlinePassed(id) ==
    LET c == call[id] IN
    /\ c.phase = "polling"
    /\ ~LoopContinues(c)
    /\ call' = [call EXCEPT ![id] =
                  IF reqFile[id].st /= "none"
                  THEN [c EXCEPT !.phase = "cleanup", !.deadline = TRUE]
                  ELSE Ended([c EXCEPT !.deadline = TRUE], "timeout", TimeoutMsg)]
    /\ UNCHANGED <<variant, reqFile, respFile, proc, ticks, dispatched, preexisting>>
    /\ UNCHANGED leaseVars

\* a timeout path whose unlink is not wrapped in try/catch in either build
UnlinkMissing_NoCatch(v, c) == Ended(c, "ioFailure", "ENOENT")

\* fs.unlinkSync(requestFile) of the timeout path when the file is gone.
\*   basic:    the ENOENT error leaves sendRequest
\*   improved: try { ... } catch (cleanupError) { debugLog(...) }, then the
\*             timeout error is thrown
UnlinkMissing(v, c) ==
    IF v = "basic" THEN Ended(c, "ioFailure", "ENOENT")
                   ELSE Ended(c, "timeout", TimeoutMsg)

\* a timeout path that empties requests/ instead of unlinking its own file
TimeoutCleanup_SweepsDir(id) ==
    LET c == call[id] IN
    /\ c.phase = "cleanup"
    /\ reqFile' = [j \in Ids |-> NoReq]
    /\ call' = [call EXCEPT ![id] = Ended(c, "timeout", TimeoutMsg)]
    /\ preexisting' = {}
    /\ UNCHANGED <<variant, respFile, proc, ticks, dispatched>>
    /\ UNCHANGED leaseVars

\*   fs.unlinkSync(requestFile);
\*   throw new Error('Request timeout - primary instance may not be running');
TimeoutCleanup(id) ==
    LET c == call[id] IN
    /\ c.phase = "cleanup"
    /\ IF reqFile[id].st /= "none"
       THEN /\ reqFile' = [reqFile EXCEPT ![id] = NoReq]
            /\ call' = [call EXCEPT ![id] = Ended(c, "timeout", TimeoutMsg)]
       ELSE /\ call' = [call EXCEPT ![id] = UnlinkMissing(variant, c)]
            /\ UNCHANGED reqFile
    /\ preexisting' = {j \in preexisting : reqFile'[j].st /= "none"}
    /\ UNCHANGED <<variant, respFile, proc, ticks, dispatched>>
    /\ UNCHANGED leaseVars

----------------------------------------------------------------------------
(* Request Processor, primary side: startRequestProcessor *)

FreeTick == [st |-> "free", files |-> <<>>, cur |-> 0, op |-> Absent, reply |-> NoResp]

\* The JS thread of the primary is held by a callback between two awaits.
SyncStates == {"scan", "writing", "recon", "reconWriting", "reconUnlink"}
ThreadBusy == \E t \in TickSlots : ticks[t].st \in SyncStates

\* fs.readdirSync(REQUEST_DIR).filter(f => f.endsWith('.json')): the names
\* present, in the order the file system lists them.
Listed == {id \in Ids : reqFile[id].st /= "none"}

RECURSIVE Orders(_)
Orders(S) == IF S = {} THEN {<<>>}
             ELSE UNION {{<<x>> \o o : o \in Orders(S \ {x})} : x \in S}

\* a processor that stores every response under the first id
ResponseName_Fixed(requestId) == 1

\* const responseFile = path.join(RESPONSE_DIR, `${request.id}.json`): the
\* response goes under the id the parsed request carries (kept in "cur" while
\* the callback handles the request), whatever the request file is called.
ResponseName(requestId) == requestId

\* The dispatch counter tells 0, 1 and "more than once" (2) apart.
Bump(n) == IF n = 0 THEN 1 ELSE 2

\* Whether startRequestProcessor sweeps the requests left by a previous run
\* before it sets the interval: processExistingRequests() exists only in the
\* improved build.
Reconciles(v) == v = "improved"

\* startRequestProcessor(whatsappClient)
PrimaryStart ==
    /\ proc = "down"
    /\ proc' = "up"
    /\ preexisting' = {id \in Ids : reqFile[id].st = "full"}
    /\ IF Reconciles(variant)
       THEN \E o \in Orders(Listed) :
               ticks' = [ticks EXCEPT ![1] = [FreeTick EXCEPT !.st = "recon", !.files = o]]
       ELSE ticks' = ticks
    /\ UNCHANGED <<variant, reqFile, respFile, call, dispatched>>
    /\ UNCHANGED leaseVars

\* The primary process exits or is killed: every callback in flight is lost.
PrimaryCrash ==
    /\ proc = "up"
    /\ proc' = "down"
    /\ ticks' = [t \in TickSlots |-> FreeTick]
    /\ preexisting' = {}
    /\ UNCHANGED <<variant, reqFile, respFile, call, dispatched>>
    /\ UNCHANGED leaseVars

\* processExistingRequests, one file of its loop up to the response write:
\*   request = JSON.parse(fs.readFileSync(requestFile)); (an error is caught
\*   per file and logged)
\*   fs.writeFileSync(responseFile, { id, error: 'Server was restarted ...' })
ReconcileNext(t) ==
    LET k == ticks[t] IN
    /\ k.st = "recon"
    /\ IF k.files = <<>>
       THEN /\ ticks' = [ticks EXCEPT ![t] = FreeTick]
            /\ UNCHANGED respFile
       ELSE LET f == Head(k.files) IN
            IF reqFile[f].st /= "full"
            THEN /\ ticks' = [ticks EXCEPT ![t].files = Tail(k.files)]
                 /\ UNCHANGED respFile
            ELSE \E w \in WriteStates :
                 /\ respFile' = [respFile EXCEPT ![ResponseName(reqFile[f].id)] =
                                   IF w = "full" THEN JsonError(reqFile[f].id, RestartMsg)
                                   ELSE [NoResp EXCEPT !.st = "partial"]]
                 /\ ticks' = [ticks EXCEPT ![t] =
                                [k EXCEPT !.st = IF w = "full" THEN "reconUnlink" ELSE "reconWriting",
                                          !.cur = reqFile[f].id]]
    /\ UNCHANGED <<variant, reqFile, call, proc, dispatched, preexisting>>
    /\ UNCHANGED leaseVars

\* the data of the restart response reaches the file
ReconcileFlush(t) ==
    LET k == ticks[t] IN
    /\ k.st = "reconWriting"
    /\ respFile' = [respFile EXCEPT ![ResponseName(k.cur)] = JsonError(k.cur, RestartMsg)]
    /\ ticks' = [ticks EXCEPT ![t].st = "reconUnlink"]
    /\ UNCHANGED <<variant, reqFile, call, proc, dispatched, preexisting>>
    /\ UNCHANGED leaseVars

\* fs.unlinkSync(requestFile) of processExistingRequests (ENOENT is caught by
\* the per-file catch)
ReconcileUnlink(t) ==
    LET k == ticks[t] IN
    /\ k.st = "reconUnlink"
    /\ reqFile' = [reqFile EXCEPT ![Head(k.files)] = NoReq]
    /\ ticks' = [ticks EXCEPT ![t] = [k EXCEPT !.st = "recon", !.files = Tail(k.files), !.cur = 0]]
    /\ preexisting' = preexisting \ {Head(k.files)}
    /\ UNCHANGED <<variant, respFile, call, proc, dispatched>>
    /\ UNCHANGED leaseVars

\* The interval fires (every 500 ms): the async callback starts and lists the
\* request directory. A callback still awaiting a dispatch does not hold the
\* timer back.
TickFire(t) ==
    /\ proc = "up"
    /\ ~ThreadBusy
    /\ ticks[t].st = "free"
    /\ \A u \in TickSlots : u < t => ticks[u].st /= "free"
    /\ \E o \in Orders(Listed) :
          ticks' = [ticks EXCEPT ![t] = [FreeTick EXCEPT !.st = "scan", !.files = o]]
    /\ UNCHANGED <<variant, reqFile, respFile, call, proc, dispatched, preexisting>>
    /\ UNCHANGED leaseVars

\* A request file of the listing cannot be read or parsed (ENOENT, or
\* JSON.parse of an incomplete file).
\*   basic:    the error reaches the catch around the whole callback, which
\*             logs it: the callback is over
\*   improved: catch (readError) { ...; continue; }
UnreadableRequest(v, k) ==
    IF v = "basic" THEN FreeTick
                   ELSE [k EXCEPT !.files = Tail(k.files)]

\* One step of "for (const file of files)": read the request and start its
\* dispatch (the session handle is invoked before the await suspends), or,
\* for an operation the switch does not know, write the error response.
TickNext(t) ==
    LET k == ticks[t] IN
    /\ k.st = "scan"
    /\ IF k.files = <<>>
       THEN /\ ticks' = [ticks EXCEPT ![t] = FreeTick]
            /\ UNCHANGED <<respFile, dispatched>>
       ELSE LET f == Head(k.files)
                r == reqFile[f]
            IN
            IF r.st /= "full"
            THEN /\ ticks' = [ticks EXCEPT ![t] = UnreadableRequest(variant, k)]
                 /\ UNCHANGED <<respFile, dispatched>>
            ELSE IF r.op \in KnownOps
            THEN /\ dispatched' = [dispatched EXCEPT ![f] = Bump(dispatched[f])]
                 /\ ticks' = [ticks EXCEPT ![t] = [k EXCEPT !.st = "await", !.cur = r.id, !.op = r.op]]
                 /\ UNCHANGED respFile
            ELSE \* default: throw new Error(`Unknown operation: ...`), caught
                 \E w \in WriteStates :
                 /\ respFile' = [respFile EXCEPT ![ResponseName(r.id)] =
                                   IF w = "full" THEN JsonError(r.id, UnknownMsg)
                                   ELSE [NoResp EXCEPT !.st = "partial"]]
                 /\ ticks' = [ticks EXCEPT ![t] =
                                IF w = "full" THEN [k EXCEPT !.files = Tail(k.files)]
                                ELSE [k EXCEPT !.st = "writing", !.cur = r.id,
                                               !.reply = JsonError(r.id, UnknownMsg)]]
                 /\ UNCHANGED dispatched
    /\ UNCHANGED <<variant, reqFile, call, proc, preexisting>>
    /\ UNCHANGED leaseVars

\* The awaited session-handle call settles and the response is written:
\*   fs.writeFileSync(responseFile, JSON.stringify({ id, result, timestamp }))
\*   catch (error) { fs.writeFileSync(responseFile, { id, error: error.message }) }
DispatchDone(t, reply) ==
    LET k == ticks[t] IN
    /\ k.st = "await"
    /\ ~ThreadBusy
    /\ \E w \in WriteStates :
         /\ respFile' = [respFile EXCEPT ![ResponseName(k.cur)] =
                           IF w = "full" THEN reply ELSE [NoResp EXCEPT !.st = "partial"]]
         /\ ticks' = [ticks EXCEPT ![t] =
                        IF w = "full" THEN [k EXCEPT !.st = "scan", !.files = Tail(k.files),
                                                     !.cur = 0, !.op = Absent]
                        ELSE [k EXCEPT !.st = "writing", !.op = Absent, !.reply = reply]]
    /\ UNCHANGED <<variant, reqFile, call, proc, dispatched, preexisting>>
    /\ UNCHANGED leaseVars

DispatchReturns(t) ==
    /\ ticks[t].st = "await"
    /\ \E r \in ResultsOf(ticks[t].op) : DispatchDone(t, JsonResult(ticks[t].cur, r))

\* a callback without the try/catch around the dispatch: the exception ends it
DispatchThrows_Escapes(t) ==
    /\ ticks[t].st = "await"
    /\ ~ThreadBusy
    /\ ticks' = [ticks EXCEPT ![t] = FreeTick]
    /\ UNCHANGED <<variant, reqFile, respFile, call, proc, dispatched, preexisting>>
    /\ UNCHANGED leaseVars

\* catch (error) { fs.writeFileSync(responseFile, { id, error: error.message }) }
DispatchThrows(t) ==
    \E m \in Msgs : DispatchDone(t, JsonError(ticks[t].cur, m))

\* the data of a response reaches the file
ResponseFlush(t) ==
    LET k == ticks[t] IN
    /\ k.st = "writing"
    /\ respFile' = [respFile EXCEPT ![ResponseName(k.cur)] = k.reply]
    /\ ticks' = [ticks EXCEPT ![t] = [k EXCEPT !.st = "scan", !.files = Tail(k.files),
                                              !.cur = 0, !.reply = NoResp]]
    /\ UNCHANGED <<variant, reqFile, call, proc, dispatched, preexisting>>
    /\ UNCHANGED leaseVars

----------------------------------------------------------------------------
(* Lease: the lock-file handling of the WhatsAppMCPServer constructor *)

MaxInst  == 2        \* server instances started in one run of the model
MaxClock == 3        \* how far the clock runs, in renewal periods

FreshMs == 60000     \* if (lockAge < 60000)
RenewMs == 30000     \* setInterval(..., 30000)

Insts == 1..MaxInst

\* "personal": node src/index.js; "business": node src/index-business.js,
\* which declares BUSINESS_LOCK_FILE, BUSINESS_STATE_FILE and BUSINESS_AUTH_DIR,
\* sets WHATSAPP_INSTANCE and imports ./index.js. The constructor and
\* setupWhatsAppClient read none of them: both kinds run the same code on
\* /tmp/whatsapp-mcp.lock and /tmp/whatsapp-mcp-state.json.
Kinds == {"personal", "business"}

NoLock  == [st |-> "none", instanceId |-> 0, timestamp |-> 0, pid |-> 0]
NoState == [st |-> "none", isReady |-> FALSE, instanceId |-> 0]

NewInst == [pc |-> "off", alive |-> FALSE, role |-> "none", ready |-> FALSE,
            renewedAt |-> 0, primaryInstanceId |-> 0,
            obs |-> "none", obsOwner |-> 0, obsPidAlive |-> FALSE, wrote |-> NoLock,
            client |-> "none", processor |-> FALSE, lockInterval |-> FALSE]

\* process.pid of an instance: one OS process per instance.
Pid(i) == i

\* process.kill(pid, 0) succeeds
processRunning(pid) == pid \in Insts /\ inst[pid].alive

\* a freshness test that never lets a lease expire
LockIsFresh_Never_Expires(lockAge) == lockAge >= 0

\* const lockAge = Date.now() - new Date(lockData.timestamp).getTime();
\* if (lockAge < 60000)
LockIsFresh(lockAge) == lockAge < FreshMs

\* How the model names the age the constructor found.
AgeClass(lockAge) == IF lockAge < FreshMs THEN "fresh"
                     ELSE IF lockAge = FreshMs THEN "edge" ELSE "stale"

\* a lease write that keeps the owner already named in the file
LeaseRecord_KeepsOwner(i, t) ==
    [st |-> "full",
     instanceId |-> IF lockFile.st = "full" THEN lockFile.instanceId ELSE i,
     timestamp |-> t, pid |-> Pid(i)]

\* JSON.stringify({ instanceId, timestamp, pid })
LeaseRecord(i, t) == [st |-> "full", instanceId |-> i, timestamp |-> t, pid |-> Pid(i)]

\* an instance that sets up a WhatsApp client whatever its role
SetsUpClient_Always(in) == in.role \in {"Primary", "Proxy"}

\* if (!this.isProxyInstance) { this.setupWhatsAppClient(); }
SetsUpClient(in) == in.role /= "Proxy"

\* The end of the constructor: the real client (new Client(...), initialize())
\* or, in a proxy, the placeholder
\*   this.whatsappClient = { isProxy: true }
CtorFinish(in) == [in EXCEPT !.pc = "done",
                             !.client = IF SetsUpClient(in) THEN "real" ELSE "mock"]

\* JSON.parse(fs.readFileSync(...)) of the lock file or of the state file
\* throws inside the constructor's try block:
\*   } catch (e) { debugLog('[DEBUG] Lock file handling error: ' + e.message); }
\* The rest of the try block, the lease write and its setInterval included, is
\* skipped; isProxyInstance is still undefined, so the constructor goes on as
\* a non-proxy instance.
LockHandlingError(in) == CtorFinish([in EXCEPT !.role = "Primary", !.obs = "unreadable"])

\* The process starts and the constructor reads the lock file:
\*   if (fs.existsSync(lockFile)) { lockData = JSON.parse(...); lockAge = ...;
\*     if (lockAge < 60000) { ... } }
CtorReadLock(i) ==
    /\ inst[i].pc = "off"
    /\ \A j \in Insts : j < i => inst[j].pc /= "off"
    /\ LET age == now - lockFile.timestamp
           seen == [inst[i] EXCEPT !.alive = TRUE,
                                   !.obs = IF lockFile.st = "none" THEN "absent" ELSE AgeClass(age),
                                   !.obsOwner = lockFile.instanceId,
                                   !.obsPidAlive = processRunning(lockFile.pid)]
       IN inst' = [inst EXCEPT ![i] =
                     IF lockFile.st = "partial"
                     THEN LockHandlingError(seen)
                     ELSE IF lockFile.st /= "none" /\ LockIsFresh(age)
                     THEN [seen EXCEPT !.pc = "readState"]
                     ELSE [seen EXCEPT !.pc = "writeLock"]]
    /\ UNCHANGED <<now, lockFile, stateFile>>
    /\ UNCHANGED <<ipcVars, toolRun, kind, security, sentDirect, rateLimiter, rateLog>>

\* Inside the fresh-lock branch:
\*   if (fs.existsSync(stateFile)) { state = JSON.parse(...);
\*     this.isReady = state.isReady; this.primaryInstanceId = lockData.instanceId;
\*     this.isProxyInstance = true; }
BecomesProxy(sf) == sf.st /= "none"

CtorReadState(i) ==
    /\ inst[i].pc = "readState"
    /\ inst' = [inst EXCEPT ![i] =
                  IF stateFile.st = "partial"
                  THEN LockHandlingError(inst[i])
                  ELSE IF BecomesProxy(stateFile)
                  THEN CtorFinish([inst[i] EXCEPT !.role = "Proxy",
                                                  !.ready = stateFile.isReady,
                                                  !.primaryInstanceId = inst[i].obsOwner])
                  ELSE [inst[i] EXCEPT !.pc = "writeLock"]]
    /\ UNCHANGED <<now, lockFile, stateFile>>
    /\ UNCHANGED <<ipcVars, toolRun, kind, security, sentDirect, rateLimiter, rateLog>>

\* if (!this.isProxyInstance) { fs.writeFileSync(lockFile, ...);
\*   this.lockInterval = setInterval(..., 30000); }   and, after the try block,
\* setupWhatsAppClient()
CtorWriteLock(i) ==
    /\ inst[i].pc = "writeLock"
    /\ lockFile' = LeaseRecord(i, now)
    /\ inst' = [inst EXCEPT ![i] = CtorFinish([inst[i] EXCEPT !.role = "Primary",
                                                              !.lockInterval = TRUE,
                                                              !.renewedAt = now,
                                                              !.wrote = LeaseRecord(i, now)])]
    /\ UNCHANGED <<now, stateFile>>
    /\ UNCHANGED <<ipcVars, toolRun, kind, security, sentDirect, rateLimiter, rateLog>>

\* a renewal interval of 90 s
RenewalDue_Slow(i) ==
    /\ inst[i].alive
    /\ inst[i].role = "Primary"
    /\ inst[i].lockInterval
    /\ now - inst[i].renewedAt >= 3 * RenewMs

\* the 30 s of setInterval(..., 30000) are up for a live Primary
RenewalDue(i) ==
    /\ inst[i].alive
    /\ inst[i].role = "Primary"
    /\ inst[i].lockInterval
    /\ now - inst[i].renewedAt >= RenewMs

\* a renewal callback of a Primary that steps down to Proxy when it finds the
\* lease file naming another instance
RenewLock_StepsDown(i) ==
    /\ RenewalDue(i)
    /\ IF lockFile.st = "full" /\ lockFile.instanceId /= i
       THEN /\ inst' = [inst EXCEPT ![i] = [inst[i] EXCEPT !.role = "Proxy",
                                                           !.lockInterval = FALSE]]
            /\ UNCHANGED lockFile
       ELSE /\ lockFile' = LeaseRecord(i, now)
            /\ inst' = [inst EXCEPT ![i] = [inst[i] EXCEPT !.renewedAt = now,
                                                           !.wrote = LeaseRecord(i, now)]]
    /\ UNCHANGED <<now, stateFile>>
    /\ UNCHANGED <<ipcVars, toolRun, kind, security, sentDirect, rateLimiter, rateLog>>

\* the lockInterval callback
RenewLock(i) ==
    /\ RenewalDue(i)
    /\ lockFile' = LeaseRecord(i, now)
    /\ inst' = [inst EXCEPT ![i] = [inst[i] EXCEPT !.renewedAt = now,
                                                   !.wrote = LeaseRecord(i, now)]]
    /\ UNCHANGED <<now, stateFile>>
    /\ UNCHANGED <<ipcVars, toolRun, kind, security, sentDirect, rateLimiter, rateLog>>

\* a saveState that leaves the instance id out of the record
saveState_Anonymous(isReady, instanceId) ==
    [st |-> "full", isReady |-> isReady, instanceId |-> 0]

\* function saveState(isReady, instanceId): the state file as it is parsed back
saveState(isReady, instanceId) ==
    [st |-> "full", isReady |-> isReady, instanceId |-> instanceId]

\* if (!this.isProxyInstance && this.whatsappClient) startRequestProcessor(...)
StartsProcessor(in) == in.role /= "Proxy" /\ in.client /= "none"

\* whatsappClient.on('ready'), an event of the real client:
\*   this.isReady = true; saveState(true, this.instanceId);
\*   if (...) startRequestProcessor(this.whatsappClient)
ClientReady(i) ==
    /\ inst[i].alive
    /\ inst[i].client = "real"
    /\ ~inst[i].ready
    /\ inst' = [inst EXCEPT ![i] = [inst[i] EXCEPT !.ready = TRUE,
                                                   !.processor = @ \/ StartsProcessor(inst[i])]]
    /\ stateFile' = saveState(TRUE, i)
    /\ UNCHANGED <<now, lockFile>>
    /\ UNCHANGED <<ipcVars, toolRun, kind, security, sentDirect, rateLimiter, rateLog>>

\* whatsappClient.on('auth_failure' | 'disconnected' | 'error'):
\*   this.isReady = false;
ClientNotReady(i) ==
    /\ inst[i].alive
    /\ inst[i].client = "real"
    /\ inst[i].ready
    /\ inst' = [inst EXCEPT ![i].ready = FALSE]
    /\ UNCHANGED <<now, lockFile, stateFile>>
    /\ UNCHANGED <<ipcVars, toolRun, kind, security, sentDirect, rateLimiter, rateLog>>

\* Tools of the MCP server: the status query, one tool whose method has the
\* proxy branch (getChats, like getContacts) and one whose method has none
\* (sendMessage, like getMessages, searchMessages, getMediaFromContact,
\* getContactActivity).
Tools == {"get_status", "get_chats", "send_message"}

NoTool == [inst |-> 0, tool |-> "none", route |-> "none"]

\* the methods that test this.isProxyInstance and call sendRequest
RelayedTools == {"get_chats"}

\* CallToolRequestSchema handler and the method it calls: where a tool call
\* is served.
\*   "refused":   the handler throws before the switch (client missing or not ready)
\*   "stateFile": getStatus of a proxy, from /tmp/whatsapp-mcp-state.json
\*   "local":     getStatus from the instance's own fields
\*   "relay":     sendRequest(...) to the primary
\*   "client":    a method of this.whatsappClient is called
Route(in, tool) ==
    IF tool = "get_status"
    THEN IF in.role = "Proxy" /\ stateFile.st /= "none" THEN "stateFile" ELSE "local"
    ELSE IF in.client = "none" \/ ~in.ready THEN "refused"
    ELSE IF in.role = "Proxy" /\ tool \in RelayedTools THEN "relay"
    ELSE "client"

\* a tool call arrives at an instance
ToolCall(i, tool) ==
    /\ inst[i].alive
    /\ inst[i].pc = "done"
    /\ toolRun' = [inst |-> i, tool |-> tool, route |-> Route(inst[i], tool)]
    /\ toolRun' /= toolRun
    /\ UNCHANGED <<now, lockFile, stateFile, inst>>
    /\ UNCHANGED <<ipcVars, kind, security, sentDirect, rateLimiter, rateLog>>

\* fs.writeFileSync(lockFile, ...) of the renewal interval has created
\* (truncated) the file and not yet written the data.
TornLockWrite(i) ==
    /\ RenewalDue(i)
    /\ lockFile.st /= "partial"
    /\ lockFile' = [NoLock EXCEPT !.st = "partial"]
    /\ UNCHANGED <<now, stateFile, inst>>
    /\ UNCHANGED <<ipcVars, toolRun, kind, security, sentDirect, rateLimiter, rateLog>>

\* fs.writeFileSync(STATE_FILE, ...) of saveState, called by the ready handler,
\* has created (truncated) the file and not yet written the data.
TornStateWrite(i) ==
    /\ inst[i].alive
    /\ inst[i].client = "real"
    /\ ~inst[i].ready
    /\ stateFile.st /= "partial"
    /\ stateFile' = [NoState EXCEPT !.st = "partial"]
    /\ UNCHANGED <<now, lockFile, inst>>
    /\ UNCHANGED <<ipcVars, toolRun, kind, security, sentDirect, rateLimiter, rateLog>>

----------------------------------------------------------------------------
(* Access control: SecurityManager and the two ways to sendMessage *)

\* Chat ids, and a phone number as a caller may write it (no '@').
ContactA == "447700900000@c.us"
ContactB == "15550100@c.us"
NumberA  == "447700900000"

ChatIds     == {ContactA, ContactB}
Identifiers == ChatIds \cup {NumberA}

NoChat == "none"

\* resolveChatId(identifier): an identifier with '@' is returned as it is, a
\* phone number becomes `${digits}@c.us`.
resolveChatId(identifier) == IF identifier = NumberA THEN ContactA ELSE identifier

\* SecurityManager.validateContact(contactId) returns true (does not throw)
validateContact(s, contactId) ==
    /\ contactId \notin s.blockedContacts
    /\ s.allowedContacts = {} \/ contactId \in s.allowedContacts

\* new SecurityManager() with no configuration file
OpenAccess == [allowedContacts |-> {}, blockedContacts |-> {}]

\* The lists as manage_security (block_contact, allow_contact) left them.
SecurityConfigs ==
    {OpenAccess,
     [allowedContacts |-> {}, blockedContacts |-> {ContactA}],
     [allowedContacts |-> {ContactB}, blockedContacts |-> {}]}

\* request.params.to of the sendMessage request written under an id
ParamsTo(id) == IF id % 2 = 1 THEN ContactA ELSE ContactB

\* WhatsAppMCPServer.sendMessage(to, message), the send_message tool on the
\* instance whose client is ready:
\*   this.security.validateContact(to);
\*   const chatId = await this.resolveChatId(to);
\*   await this.whatsappClient.sendMessage(chatId, sanitizedMessage);
SendMessageTool(to) ==
    /\ proc = "up"
    /\ validateContact(security, to)
    /\ sentDirect' = resolveChatId(to)
    /\ sentDirect' /= sentDirect
    /\ UNCHANGED <<now, lockFile, stateFile, inst, toolRun, kind, security>>
    /\ UNCHANGED <<ipcVars, rateLimiter, rateLog>>

----------------------------------------------------------------------------
(* Rate limiting: SecurityManager.checkRateLimit *)

WindowMs == 60000    \* const windowMs = 60000
MaxSend  == 20       \* maxRequests of 'send_message'
MaxOther == 5        \* maxRequests of every other action

\* `${action}_${contactId}`: no action name is another one followed by '_',
\* so a key stands for one pair.
RateKey(action, contactId) == <<action, contactId>>

RateActions == {"send_message", "send_media"}
RateKeys    == {RateKey(a, c) : a \in RateActions, c \in ChatIds}

\* the instants of the model's clock
Times == {t * RenewMs : t \in 0..MaxClock}

\* a limiter with the limit of send_message for every action
maxRequests_Flat(action) == MaxSend

\* const maxRequests = action === 'send_message' ? 20 : 5;
maxRequests(action) == IF action = "send_message" THEN MaxSend ELSE MaxOther

\* requests.filter(time => now - time < windowMs)
recentRequests(requests, t) == SelectSeq(requests, LAMBDA time : t - time < WindowMs)

NoRateLog == [keys |-> {}, accepted |-> [k \in RateKeys |-> [t \in Times |-> 0]],
              lastKey |-> <<>>, last |-> "none"]

\* checkRateLimit(action, contactId): throws 'Rate limit exceeded ...' when
\* the calls let through in the last minute have reached maxRequests,
\* otherwise appends the time of this call to the filtered list and stores it.
checkRateLimit(action, contactId) ==
    LET key == RateKey(action, contactId)
        recent == recentRequests(rateLimiter[key], now)
    IN
    /\ key \in rateLog.keys
    /\ IF Len(recent) >= maxRequests(action)
       THEN /\ rateLog' = [rateLog EXCEPT !.lastKey = key, !.last = "limit"]
            /\ UNCHANGED rateLimiter
       ELSE /\ rateLimiter' = [rateLimiter EXCEPT ![key] = Append(recent, now)]
            /\ rateLog' = [rateLog EXCEPT !.lastKey = key, !.last = "ok",
                                          !.accepted[key][now] = @ + 1]
    /\ UNCHANGED <<now, lockFile, stateFile, inst, toolRun, kind, security, sentDirect>>
    /\ UNCHANGED ipcVars

\* The process of an instance ends (exit or kill): its timers stop, the lock
\* and state files stay.
InstanceExit(i) ==
    /\ inst[i].alive
    /\ inst[i].pc = "done"
    /\ inst' = [inst EXCEPT ![i] = [inst[i] EXCEPT !.alive = FALSE, !.processor = FALSE]]
    /\ UNCHANGED <<now, lockFile, stateFile>>
    /\ UNCHANGED <<ipcVars, toolRun, kind, security, sentDirect, rateLimiter, rateLog>>

\* Time passes by one renewal period; a live primary's interval fires when due.
Advance ==
    /\ now < MaxClock * RenewMs
    /\ \A i \in Insts : ~RenewalDue(i)
    /\ now' = now + RenewMs
    /\ UNCHANGED <<lockFile, stateFile, inst>>
    /\ UNCHANGED <<ipcVars, toolRun, kind, security, sentDirect, rateLimiter, rateLog>>

----------------------------------------------------------------------------
(* Specifications *)

InitIpc ==
    /\ reqFile = [id \in Ids |-> NoReq]
    /\ respFile = [id \in Ids |-> NoResp]
    /\ call = [id \in Ids |-> NewCall]
    /\ proc = "down"
    /\ ticks = [t \in TickSlots |-> FreeTick]
    /\ dispatched = [id \in Ids |-> 0]
    /\ preexisting = {}

InitLease ==
    /\ now = 0
    /\ lockFile = NoLock
    /\ stateFile = NoState
    /\ inst = [i \in Insts |-> NewInst]
    /\ toolRun = NoTool
    /\ sentDirect = NoChat
    /\ rateLimiter = [k \in RateKeys |-> <<>>]

\* every instance is started with node src/index.js
AllPersonal == kind = [i \in Insts |-> "personal"]

\* The mailbox: proxies calling sendRequest, one primary processing.
Init ==
    /\ variant \in Variants
    /\ InitIpc
    /\ InitLease
    /\ AllPersonal
    /\ security = OpenAccess
    /\ rateLog = NoRateLog

\* sendRequest running in proxies whose processes stay alive
ProxyRuns ==
    \E id \in Ids :
        \/ \E op \in Ops : SendRequest(id, op)
        \/ FinishRequestWrite(id)
        \/ PollResponse(id)
        \/ DeadlinePassed(id)
        \/ TimeoutCleanup(id)

ProxyNext ==
    \/ ProxyRuns
    \/ \E id \in Ids : ProxyCrash(id)

\* the request processor of a primary whose process stays alive
PrimaryRunsOn(S) ==
    \/ PrimaryStart
    \/ \E t \in S :
        \/ ReconcileNext(t)
        \/ ReconcileFlush(t)
        \/ ReconcileUnlink(t)
        \/ TickFire(t)
        \/ TickNext(t)
        \/ DispatchReturns(t)
        \/ DispatchThrows(t)
        \/ ResponseFlush(t)

PrimaryRuns == PrimaryRunsOn(Slots)

PrimaryNext ==
    \/ PrimaryRuns
    \/ PrimaryCrash

Next == ProxyNext \/ PrimaryNext

Spec == Init /\ [][Next]_vars

\* The mailbox while no process crashes.
SteadyNext == ProxyRuns \/ PrimaryRuns

SpecSteady == Init /\ [][SteadyNext]_vars

\* The lease: instances starting, renewing and exiting as time passes.
LeaseInit ==
    /\ variant = "basic"
    /\ InitIpc
    /\ InitLease
    /\ AllPersonal
    /\ security = OpenAccess
    /\ rateLog = NoRateLog

LeaseNext ==
    \/ Advance
    \/ \E i \in Insts :
        \/ CtorReadLock(i)
        \/ CtorReadState(i)
        \/ CtorWriteLock(i)
        \/ RenewLock(i)
        \/ ClientReady(i)
        \/ ClientNotReady(i)
        \/ InstanceExit(i)

SpecLease == LeaseInit /\ [][LeaseNext]_vars

\* The lease under the scheduling the processes guarantee: time passes, a
\* constructor that has started runs to its end, and the renewal interval of a
\* live primary fires when due. Nothing makes a process start or exit.
LeaseFairness ==
    /\ WF_vars(Advance)
    /\ \A i \in Insts : WF_vars(CtorReadState(i) \/ CtorWriteLock(i))
    /\ \A i \in Insts : WF_vars(RenewLock(i))

SpecLeaseLive == LeaseInit /\ [][LeaseNext]_vars /\ LeaseFairness

\* The lease while other processes may read the lock and state files in the
\* middle of a write.
LeaseTornNext ==
    \/ LeaseNext
    \/ \E i \in Insts : TornLockWrite(i) \/ TornStateWrite(i)

SpecLeaseTorn == LeaseInit /\ [][LeaseTornNext]_vars

\* The lease when personal and business servers are started on one machine.
KindsInit ==
    /\ variant = "basic"
    /\ InitIpc
    /\ InitLease
    /\ kind \in [Insts -> Kinds]
    /\ security = OpenAccess
    /\ rateLog = NoRateLog

SpecKinds == KindsInit /\ [][LeaseNext]_vars

\* The instances of the lease specification, serving tool calls.
ToolsNext ==
    \/ LeaseNext
    \/ \E i \in Insts, tool \in Tools : ToolCall(i, tool)

SpecTools == LeaseInit /\ [][ToolsNext]_vars

\* sendMessage by both ways, under the access lists of the primary: the
\* send_message tool, and sendMessage requests in the mailbox.
AccessInit ==
    /\ variant \in Variants
    /\ InitIpc
    /\ InitLease
    /\ AllPersonal
    /\ security \in SecurityConfigs
    /\ rateLog = NoRateLog

AccessNext ==
    \/ \E id \in Ids :
          \/ SendRequest(id, "sendMessage")
          \/ FinishRequestWrite(id)
          \/ PollResponse(id)
          \/ DeadlinePassed(id)
          \/ TimeoutCleanup(id)
    \/ PrimaryRuns
    \/ \E to \in Identifiers : SendMessageTool(to)

SpecAccess == AccessInit /\ [][AccessNext]_vars

\* The rate limiter of one SecurityManager as time passes. A run exercises
\* the keys of one action: send_message to one contact, or send_media to two.
RateRuns == {{RateKey("send_message", ContactA)},
             {RateKey("send_media", ContactA), RateKey("send_media", ContactB)}}

RateInit ==
    /\ variant = "basic"
    /\ InitIpc
    /\ InitLease
    /\ AllPersonal
    /\ security = OpenAccess
    /\ \E ks \in RateRuns : rateLog = [NoRateLog EXCEPT !.keys = ks]

RateNext ==
    \/ Advance
    \/ \E a \in RateActions, c \in ChatIds : checkRateLimit(a, c)

SpecRate == RateInit /\ [][RateNext]_vars

\* The mailbox when the interval fires while an earlier callback still awaits
\* its dispatch: sendMessage requests, no process crashing.
OverlapNext ==
    \/ \E id \in Ids :
          \/ SendRequest(id, "sendMessage")
          \/ FinishRequestWrite(id)
          \/ PollResponse(id)
          \/ DeadlinePassed(id)
          \/ TimeoutCleanup(id)
    \/ PrimaryRunsOn(TickSlots)

SpecOverlap == Init /\ [][OverlapNext]_vars

\* The mailbox under the scheduling the primary's event loop guarantees: the
\* 500 ms interval keeps firing, synchronous code runs on, and an awaited
\* session-handle call settles. Nothing is assumed about the proxies.
PrimaryFairness ==
    /\ \A t \in Slots : WF_vars(TickFire(t))
    /\ \A t \in Slots : WF_vars(TickNext(t))
    /\ \A t \in Slots : WF_vars(DispatchReturns(t) \/ DispatchThrows(t))
    /\ \A t \in Slots : WF_vars(ResponseFlush(t))
    /\ \A t \in Slots : WF_vars(ReconcileNext(t) \/ ReconcileFlush(t) \/ ReconcileUnlink(t))

SpecLive == Init /\ [][Next]_vars /\ PrimaryFairness

----------------------------------------------------------------------------
(* Claims about the request bridge *)

IsEnded(id)    == call[id].phase = "ended"
Polling(t)     == ticks[t].st \in {"scan", "await", "writing"}

\* C1: each Request Record is dispatched to the session handle at most once,
\* and exactly once when its call returns a result.
C1_DispatchedAtMostOnce ==
    \A id \in Ids :
        /\ dispatched[id] <= 1
        /\ (IsEnded(id) /\ call[id].outcome = "returned") => dispatched[id] = 1

C3_RemoteErrorRaised ==
    \A id \in Ids :
        (IsEnded(id) /\ call[id].seen = "full" /\ call[id].seenError \in Msgs)
            => /\ call[id].outcome = "remoteError"
               /\ call[id].val = call[id].seenError
               /\ reqFile[id].st = "none"

\* C4: a call whose deadline passed ends in the timeout error, never in a
\* file-system error, and its Request Record is gone, also when another
\* process removed the request file first.
C4_TimeoutCleansUp ==
    \A id \in Ids :
        (IsEnded(id) /\ call[id].deadline)
            => /\ call[id].outcome = "timeout"
               /\ call[id].val = TimeoutMsg
               /\ reqFile[id].st = "none"

\* a call timed out whose request reconciliation had already answered and removed
C4_Witness ==
    \E id \in Ids :
        /\ IsEnded(id) /\ call[id].deadline /\ call[id].outcome = "timeout"
        /\ respFile[id] = JsonError(id, RestartMsg)

\* C5: once a normal poll tick runs, every Request Record that was in requests/
\* when the processor started has been answered by reconciliation and removed:
\* none is still there to be dispatched.
C5_ReconciledBeforePolling ==
    \A t \in Slots : Polling(t) => preexisting = {}

\* C9: a Request Record present while the processor polls is eventually
\* answered, whatever else lies in requests/ (as long as the processor keeps
\* running and the request is still there to be answered).
C9_EventuallyAnswered ==
    \A id \in Ids :
        (proc = "up" /\ reqFile[id].st = "full")
            ~> (respFile[id].st = "full" \/ proc = "down" \/ reqFile[id].st = "none")

\* C10: every call in progress can take a step, every step it can take lowers
\* a rank bounded by its deadline, and a call that ended did so in exactly one
\* of the four outcomes.
Rank(c) == CASE c.phase = "writing" -> PollsLong + 3
             [] c.phase = "polling" -> (PollsLong - c.polls) + 2
             [] c.phase = "cleanup" -> 1
             [] OTHER -> 0

CallStep(id) ==
    \/ FinishRequestWrite(id)
    \/ PollResponse(id)
    \/ DeadlinePassed(id)
    \/ TimeoutCleanup(id)

C10_CallTerminates ==
    \A id \in Ids :
        /\ call[id].phase \in {"writing", "polling", "cleanup"}
              => /\ ENABLED CallStep(id)
                 /\ ~ENABLED (CallStep(id) /\ ~(Rank(call'[id]) < Rank(call[id])))
                 /\ call[id].polls <= Timeout(call[id].op)
                 /\ call[id].outcome = "none"
        /\ IsEnded(id) => call[id].outcome \in {"returned", "remoteError", "timeout", "ioFailure"}

\* a call ended in the timeout error although the primary never ran
C10_Witness ==
    \E id \in Ids : IsEnded(id) /\ call[id].outcome = "timeout" /\ proc = "down"

----------------------------------------------------------------------------
(* Claims about the lease *)

Acquired(i) == inst[i].pc = "done"

\* C6: an instance that runs lease acquisition while the lease another
\* instance wrote is still fresh becomes Proxy, so that the two of them are
\* exactly one Primary and one Proxy.
C6_FreshLeaseMakesProxy ==
    \A i \in Insts :
        (Acquired(i) /\ inst[i].obs = "fresh" /\ inst[i].obsOwner /= i)
            => inst[i].role = "Proxy"

\* C7: an instance that starts when the lease file is absent, or holds a
\* timestamp more than 60 s old, becomes Primary and the lease it writes
\* carries its own instanceId and pid.
C7_StaleOrAbsentMakesPrimary ==
    \A i \in Insts :
        (Acquired(i) /\ inst[i].obs \in {"absent", "stale"})
            => /\ inst[i].role = "Primary"
               /\ inst[i].wrote.st = "full"
               /\ inst[i].wrote.instanceId = i
               /\ inst[i].wrote.pid = Pid(i)

\* an instance took over a lease that had expired, the state file of the
\* previous primary still being there
C7_Witness ==
    \E i \in Insts :
        /\ Acquired(i) /\ inst[i].obs = "stale" /\ inst[i].role = "Primary"
        /\ inst[i].obsOwner /= i
        /\ ~inst[i].ready /\ stateFile.st = "full"
        /\ lockFile.instanceId = i

\* C8: an instance that starts when the lease is fresh but the pid recorded in
\* it is not a running process writes a lease of its own and becomes Primary.
C8_DeadOwnerMakesPrimary ==
    \A i \in Insts :
        (Acquired(i) /\ inst[i].obs = "fresh" /\ ~inst[i].obsPidAlive)
            => /\ inst[i].role = "Primary"
               /\ inst[i].wrote.instanceId = i

----------------------------------------------------------------------------
(* Claims about the records in the mailbox *)

PrimaryIdle == proc = "up" /\ \A t \in Slots : ticks[t].st = "free"

\* C11: with no process crashing, once a call has ended in a result, a
\* RemoteError or a Timeout and the primary has no callback in flight, neither requests/<id>.json nor
\* responses/<id>.json exists for the call's id.
C11_NoResidue ==
    \A id \in Ids :
        (IsEnded(id) /\ call[id].outcome \in {"returned", "remoteError", "timeout"} /\ PrimaryIdle)
            => /\ reqFile[id].st = "none"
               /\ respFile[id].st = "none"

\* C12: every Response Record in responses/ carries the id of a request that
\* was written and lies under that id's name, and what a call read as its
\* response carried the call's own id.
C12_CorrelatedById ==
    \A id \in Ids :
        /\ respFile[id].st = "full"
              => /\ respFile[id].id = id
                 /\ call[id].phase /= "idle"
        /\ call[id].seen = "full" => call[id].seenId = id

\* two calls, answered in the same run, each got the result of its own operation
C12_Witness ==
    \E i, j \in Ids :
        /\ IsEnded(i) /\ call[i].outcome = "returned" /\ call[i].val = SentOk /\ call[i].seenId = i
        /\ IsEnded(j) /\ call[j].outcome = "returned" /\ call[j].val = MediaInfo /\ call[j].seenId = j

\* C13: the primary writes at most one Response Record per request id: a
\* complete response is never written a second time, it stays as it is until
\* the proxy deletes it.
C13_AtMostOneResponse ==
    [][\A id \in Ids :
          respFile[id].st = "full"
              => (respFile'[id] = respFile[id] \/ respFile'[id].st = "none")]_vars


\* C14: a Response Record is published atomically: no call ever reads a
\* response file that exists but whose content is still incomplete.
C14_NeverReadsPartial ==
    \A id \in Ids : call[id].seen /= "partial"


\* C15: in normal polling the primary deletes a Request Record it has
\* answered: when a response written by a poll tick is in responses/ and no
\* callback is handling that request any more, the request file is gone,
\* whatever the proxy has done.
C15_PrimaryDeletesRequest ==
    \A id \in Ids :
        (/\ respFile[id].st = "full"
         /\ respFile[id].error /= RestartMsg
         /\ \A t \in Slots : ticks[t].cur /= id)
            => reqFile[id].st = "none"


\* C16: an exception raised while a request is dispatched stays inside the
\* tick. The callback that was awaiting the dispatch writes a response for
\* that request and goes on with the rest of its listing, and while the
\* processor runs and no callback is in flight the interval can fire again.
C16_ExceptionStaysInTick ==
    /\ [](PrimaryIdle => ENABLED TickFire(1))
    /\ [][\A t \in Slots :
            (ticks[t].st = "await" /\ ticks'[t] /= ticks[t] /\ proc' = "up")
                => /\ respFile'[ticks[t].cur].st /= "none"
                   /\ \/ /\ ticks'[t].st = "scan"
                         /\ ticks'[t].files = Tail(ticks[t].files)
                         /\ respFile'[ticks[t].cur].st = "full"
                      \/ /\ ticks'[t].st = "writing"
                         /\ ticks'[t].files = ticks[t].files
                         /\ ticks'[t].reply.st = "full"]_vars

\* one tick: the dispatch of one request threw and its error response was
\* written, and the callback has gone on to dispatch the other request of its
\* listing
C16_Witness ==
    \E i, j \in Ids, t \in Slots :
        /\ i /= j
        /\ proc = "up" /\ ticks[t].st = "await" /\ ticks[t].cur = j /\ ticks[t].files = <<j>>
        /\ reqFile[i].st = "full" /\ reqFile[j].st = "full"
        /\ dispatched[i] = 1 /\ dispatched[j] = 1
        /\ respFile[i] = JsonError(i, "boom")

----------------------------------------------------------------------------
(* Claims about roles and the readiness state *)

\* C17: only a Primary sets up the session client and runs the request
\* processor; an instance that decided to be Proxy holds the placeholder
\* client, never starts the processor and never writes the lease file.
C17_OnlyPrimaryOwnsSession ==
    \A i \in Insts :
        /\ inst[i].role = "Proxy"
              => /\ inst[i].client = "mock"
                 /\ ~inst[i].processor
                 /\ inst[i].wrote = NoLock
                 /\ lockFile.instanceId /= i
        /\ (inst[i].client = "real" \/ inst[i].processor) => inst[i].role = "Primary"

\* a Proxy runs next to a Primary whose processor has been started
C17_Witness ==
    \E i, j \in Insts :
        /\ inst[i].alive /\ inst[i].role = "Proxy" /\ Acquired(i)
        /\ inst[j].alive /\ inst[j].role = "Primary" /\ inst[j].processor
        /\ inst[i].primaryInstanceId = j

\* C18: the readiness state record is written only by a Primary: whenever the
\* state file exists, the instanceId in it is that of an instance whose role is
\* Primary and whose session client became ready.
C18_StateWrittenByPrimary ==
    stateFile.st /= "none"
        => /\ stateFile.instanceId \in Insts
           /\ inst[stateFile.instanceId].role = "Primary"
           /\ inst[stateFile.instanceId].client = "real"

\* a Proxy read the state file its Primary wrote
C18_Witness ==
    \E i \in Insts :
        /\ inst[i].role = "Proxy" /\ Acquired(i) /\ inst[i].ready
        /\ stateFile = saveState(TRUE, inst[i].primaryInstanceId)

\* C19: the state record follows the primary's readiness: while the instance
\* that wrote the record runs, the record's isReady equals that instance's
\* in-memory isReady.
C19_StateFollowsReadiness ==
    \A i \in Insts :
        (stateFile.st /= "none" /\ stateFile.instanceId = i /\ inst[i].alive)
            => stateFile.isReady = inst[i].ready


\* C20: a Proxy answers the status query from the state file and serves every
\* other tool by relaying it to the primary (or refuses it): no tool call on a
\* Proxy is run against the proxy's placeholder client.
C20_ProxyRelays ==
    (toolRun.inst \in Insts /\ inst[toolRun.inst].role = "Proxy")
        => IF toolRun.tool = "get_status"
           THEN toolRun.route = "stateFile"
           ELSE toolRun.route \in {"relay", "refused"}


----------------------------------------------------------------------------
(* Claims about abandoned calls, re-election and failures *)

\* startRequestProcessor returns: the interval is set and, in the improved
\* build, processExistingRequests has gone through its listing.
StartupCompletes ==
    /\ proc' = "up"
    /\ \/ proc = "down" /\ \A t \in Slots : ticks'[t].st = "free"
       \/ \E t \in Slots : ticks[t].st = "recon" /\ ticks'[t].st = "free"

\* a response a dispatch wrote for a call that had given up on its deadline
Orphan(id) ==
    /\ IsEnded(id) /\ call[id].outcome = "timeout"
    /\ respFile[id].st = "full"
    /\ respFile[id].error /= RestartMsg

\* C21: the Response Record the primary writes for a call that gave up on
\* timeout does not survive a primary restart: when the next primary startup
\* has completed, that response file is gone.
C21_OrphanRemovedAtStartup ==
    [][StartupCompletes
          => \A id \in Ids : Orphan(id) => respFile'[id].st = "none"]_vars


\* the lease file holds a lease that is no longer fresh
LeaseStale == lockFile.st = "full" /\ ~LockIsFresh(now - lockFile.timestamp)

RunningPrimary == \E j \in Insts : inst[j].alive /\ inst[j].role = "Primary"

\* C22: a stale lease triggers re-election: when the lease has become stale
\* and no Primary runs any more, a Proxy that keeps running sees some running
\* instance become Primary.
C22_StaleLeaseReelects ==
    \A i \in Insts :
        (inst[i].alive /\ inst[i].role = "Proxy" /\ LeaseStale /\ ~RunningPrimary)
            ~> (RunningPrimary \/ ~inst[i].alive)


Renewing(j) == inst[j].alive /\ inst[j].role = "Primary" /\ inst[j].lockInterval

\* C24: while a Primary that renews its lease every 30 s is alive, the age a
\* reader computes from the lease is below the 60 s window at every instant,
\* and no starting instance finds the lease stale.
C24_LiveLeaseNeverStale ==
    /\ []((\E j \in Insts : Renewing(j))
             => (lockFile.st = "full" => LockIsFresh(now - lockFile.timestamp)))
    /\ [][\A i \in Insts :
            (inst[i].pc = "off" /\ inst'[i].pc /= "off" /\ \E j \in Insts : Renewing(j))
                => inst'[i].obs \notin {"stale", "edge"}]_vars

\* an instance starting more than 60 s after the Primary did has just found
\* the lease the Primary renewed fresh
C24_Witness ==
    \E i, j \in Insts :
        /\ i /= j /\ Renewing(j)
        /\ inst[i].pc = "readState" /\ inst[i].obs = "fresh" /\ inst[i].obsOwner = j
        /\ now >= 2 * RenewMs
        /\ lockFile = LeaseRecord(j, now)


\* C25: a call that ends because its deadline elapsed reports the timeout
\* error, and the timeout error is reported for nothing else: a call that read
\* the error response of a failed dispatch does not end in it.
C25_TimeoutErrorIsSpecific ==
    \A id \in Ids :
        IsEnded(id)
            => /\ call[id].deadline => call[id].val = TimeoutMsg
               /\ call[id].val = TimeoutMsg
                     => /\ call[id].deadline
                        /\ ~Truthy(call[id].seenError)


ShortMs == 30000     \* the deadline of every operation but one
LongMs  == 60000     \* the deadline of getMediaFromContact

\* the deadline the operation is given, and the time a call has waited (one
\* poll iteration of the model stands for ShortMs / PollsShort milliseconds)
DeadlineMs(op) == IF op = "getMediaFromContact" THEN LongMs ELSE ShortMs
ElapsedMs(c)   == c.polls * (ShortMs \div PollsShort)

C27_WriteFailureIsImmediate ==
    \A id \in Ids :
        call[id].refused
            => /\ IsEnded(id)
               /\ call[id].outcome = "ioFailure"
               /\ call[id].val \in {WriteErrorMsg, FailedToWrite}
               /\ call[id].seen = "none" /\ ~call[id].deadline
               /\ reqFile[id].st = "none"
               /\ respFile[id].st = "none"

\* a call was refused while the primary was answering another one
C27_Witness ==
    \E i, j \in Ids :
        /\ call[i].refused /\ IsEnded(i)
        /\ call[j].phase = "polling" /\ respFile[j].st = "full"
        /\ proc = "up"


Carries(x) == x /= Absent

\* C28: every Response Record in responses/ carries exactly one of result and
\* error, and a call that read a record ends in RemoteError, with the record's
\* message, exactly when the record carried error, and returns the record's
\* result otherwise.
C28_ResultXorError ==
    \A id \in Ids :
        /\ respFile[id].st = "full"
              => (Carries(respFile[id].result) /= Carries(respFile[id].error))
        /\ (IsEnded(id) /\ call[id].seen = "full")
              => IF Carries(call[id].seenError)
                 THEN call[id].outcome = "remoteError" /\ call[id].val = call[id].seenError
                 ELSE call[id].outcome = "returned" /\ call[id].val = call[id].seenResult


----------------------------------------------------------------------------
(* Claims about the two servers and about access control *)

\* C29: the personal and the business server each own their session: an
\* instance that starts while a Primary of the other kind holds a fresh lease
\* becomes Primary itself.
C29_KindsRunSideBySide ==
    \A i \in Insts :
        (/\ Acquired(i) /\ inst[i].obs = "fresh"
         /\ inst[i].obsOwner \in Insts
         /\ kind[inst[i].obsOwner] /= kind[i])
            => inst[i].role = "Primary"


\* the chats the request processor passed to the session handle's sendMessage
SentByProcessor ==
    {ParamsTo(id) : id \in {j \in Ids : dispatched[j] >= 1 /\ call[j].op = "sendMessage"}}

Permitted(chatId) ==
    /\ chatId \notin security.blockedContacts
    /\ security.allowedContacts = {} \/ chatId \in security.allowedContacts

\* C30: no message goes through the session handle to a chat that is on the
\* blocklist or, the allowlist being non-empty, not on the allowlist, whether
\* it was sent by the send_message tool or by a sendMessage request the
\* request processor handled.
C30_BlockedContactNeverReached ==
    /\ sentDirect /= NoChat => Permitted(sentDirect)
    /\ \A chatId \in SentByProcessor : Permitted(chatId)


----------------------------------------------------------------------------
(* Claims about rate limiting, races and the processor's ticks *)

RECURSIVE SumOver(_, _)
SumOver(f, S) == IF S = {} THEN 0
                 ELSE LET x == CHOOSE y \in S : TRUE IN f[x] + SumOver(f, S \ {x})

\* calls of a key accepted in the 60 s that end at instant t
AcceptedInWindow(key, t) ==
    SumOver(rateLog.accepted[key], {u \in Times : u <= t /\ t - u < WindowMs})

LimitPerMinute(key) == IF key[1] = "send_message" THEN MaxSend ELSE MaxOther

\* C31: for every key, the calls of checkRateLimit accepted in any 60 s
\* window are at most 20 for send_message and 5 for any other action; a call
\* is refused exactly when that many were accepted in the last 60 s, and a
\* refused call changes nothing a later call depends on.
C31_RateLimitHolds ==
    /\ [](\A key \in RateKeys, t \in Times : AcceptedInWindow(key, t) <= LimitPerMinute(key))
    /\ [][rateLog' /= rateLog
            => LET key == rateLog'.lastKey IN
               IF AcceptedInWindow(key, now) >= LimitPerMinute(key)
               THEN /\ rateLog'.last = "limit"
                    /\ rateLog'.accepted = rateLog.accepted
                    /\ rateLimiter' = rateLimiter
               ELSE /\ rateLog'.last = "ok"
                    /\ rateLog'.accepted[key][now] = rateLog.accepted[key][now] + 1]_vars

\* send_message was let through 20 times, refused, and let through 20 times
\* again once the minute had passed, where the 21st call is refused again
C31_Witness ==
    LET key == RateKey("send_message", ContactA) IN
    /\ rateLog.accepted[key][0] = MaxSend
    /\ rateLog.accepted[key][RenewMs] = 0
    /\ rateLog.accepted[key][2 * RenewMs] = MaxSend
    /\ rateLog.lastKey = key /\ rateLog.last = "limit"


\* C32: the lease does not exclude two Primaries. Every instance that read the
\* lease as absent or stale becomes Primary with a renewal timer, also when
\* another instance read it so before either wrote; each of them renews when
\* its 30 s are up, and every lease write puts the writer's own instanceId
\* and pid in the file.
C32_StartupRaceTwoPrimaries ==
    /\ [](\A i \in Insts :
            (Acquired(i) /\ inst[i].obs \in {"absent", "stale"})
                => /\ inst[i].role = "Primary"
                   /\ inst[i].lockInterval
                   /\ (inst[i].alive /\ now - inst[i].renewedAt >= RenewMs)
                         => ENABLED RenewLock(i))
    /\ [][\A i \in Insts :
            (\/ inst'[i].renewedAt /= inst[i].renewedAt
             \/ inst[i].pc = "writeLock" /\ inst'[i].pc = "done")
                => lockFile' = [st |-> "full", instanceId |-> i, timestamp |-> now,
                                pid |-> Pid(i)]]_vars

\* two instances both found no lease, both are Primary, both have renewed,
\* and the file names the one that wrote last
C32_Witness ==
    \E i, j \in Insts :
        /\ i /= j
        /\ inst[i].alive /\ inst[i].role = "Primary" /\ inst[i].obs = "absent"
        /\ inst[j].alive /\ inst[j].role = "Primary" /\ inst[j].obs = "absent"
        /\ inst[i].renewedAt >= RenewMs /\ inst[j].renewedAt >= RenewMs
        /\ inst[i].wrote.instanceId = i
        /\ lockFile.instanceId = j


----------------------------------------------------------------------------
\* C33: within one primary process at most one dispatch is in flight at any
\* time: no callback of the interval starts a dispatch while the dispatch
\* begun by an earlier callback still awaits the session handle.
InFlight == {t \in TickSlots : ticks[t].st = "await"}

C33_OneDispatchInFlight == Cardinality(InFlight) <= 1


----------------------------------------------------------------------------
\* C34: a sendRequest call that has observed, read and deleted its Response
\* Record ends in that very step with the record's outcome (its result, or an
\* error carrying its error message): it neither goes on polling nor ends in
\* the Timeout error.
Consumes(id) ==
    /\ call[id].phase = "polling"
    /\ respFile[id].st = "full"
    /\ respFile'[id].st = "none"

EndsWithRecord(c, resp) ==
    /\ c.phase = "ended"
    /\ IF Truthy(resp.error)
       THEN c.outcome = "remoteError" /\ c.val = resp.error
       ELSE c.outcome = "returned" /\ c.val = resp.result

C34_ConsumedResponseEndsCall ==
    [][\A id \in Ids : Consumes(id) => EndsWithRecord(call'[id], respFile[id])]_vars


----------------------------------------------------------------------------
\* C35: every instance that acts as Primary (it has set up the real session
\* client) has written a Lease Record naming its own instanceId and pid and,
\* while its process runs, has its 30 s renewal timer set: no instance owns
\* the session without having claimed the lease.
OwnsSession(i) == inst[i].alive /\ inst[i].client = "real"

C35_SessionOwnerHoldsLease ==
    \A i \in Insts :
        OwnsSession(i)
            => /\ inst[i].wrote.st = "full"
               /\ inst[i].wrote.instanceId = i
               /\ inst[i].wrote.pid = Pid(i)
               /\ inst[i].lockInterval


----------------------------------------------------------------------------
\* C36: reconciliation answers with the restart error only requests orphaned
\* by a previous primary: the request of a proxy whose sendRequest call is
\* still polling for the answer never gets the response
\* 'Server was restarted while processing request'.
StillWaiting(id) == call[id].phase = "polling" /\ reqFile[id].st = "full"

RestartAnswered(id) ==
    /\ respFile'[id] /= respFile[id]
    /\ respFile'[id] = JsonError(id, RestartMsg)

C36_RestartErrorOnlyForOrphans ==
    [][\A id \in Ids : RestartAnswered(id) => ~StillWaiting(id)]_vars


----------------------------------------------------------------------------
\* C37: a request file that cannot be read or parsed when the callback comes
\* to it is skipped: the callback goes on, in the same tick, with the files
\* of its listing that follow the bad one.
HitsUnreadable(t) ==
    /\ ticks[t].st = "scan"
    /\ ticks[t].files /= <<>>
    /\ reqFile[Head(ticks[t].files)].st /= "full"
    /\ Tail(ticks[t].files) /= <<>>
    /\ ticks'[t] /= ticks[t]

C37_UnreadableRequestSkipped ==
    [][\A t \in Slots :
         (HitsUnreadable(t) /\ proc' = "up")
             => ticks'[t].st = "scan" /\ ticks'[t].files = Tail(ticks[t].files)]_vars


----------------------------------------------------------------------------
\* C38: an instance's role is decided once, in its constructor, and never
\* changes afterwards: when the constructor is over the instance is Primary
\* or Proxy, and no later step (a renewal, a readiness event, time passing,
\* the other instance starting, overwriting the lease or exiting) turns a
\* Proxy into a Primary or a Primary into a Proxy.
C38_RoleDecidedOnce ==
    /\ [](\A i \in Insts : Acquired(i) <=> inst[i].role \in {"Primary", "Proxy"})
    /\ [][\A i \in Insts : Acquired(i) => inst'[i].role = inst[i].role]_vars

\* a Proxy is still Proxy although the Primary it found has exited and the
\* lease has gone stale
C38_Witness ==
    \E i, j \in Insts :
        /\ inst[i].alive /\ Acquired(i) /\ inst[i].role = "Proxy"
        /\ inst[i].primaryInstanceId = j /\ ~inst[j].alive
        /\ LeaseStale /\ ~RunningPrimary


----------------------------------------------------------------------------
\* C39: a sendRequest call only ever creates and deletes the two files named
\* by its own request id: whatever step a call takes, on every exit path, the
\* Request and Response Records of every other call are left as they were.
CallActs(id) == call'[id] /= call[id]

C39_CallTouchesOnlyOwnFiles ==
    [][\A id \in Ids : CallActs(id) =>
          \A j \in Ids \ {id} : /\ reqFile'[j] = reqFile[j]
                                /\ respFile'[j] = respFile[j]
                                /\ call'[j] = call[j]]_vars

\* one call has ended in the timeout error, its request file removed, while
\* the request of another call that is still polling and the response
\* written for it are in place
C39_Witness ==
    \E i, j \in Ids :
        /\ i /= j
        /\ IsEnded(i) /\ call[i].outcome = "timeout" /\ reqFile[i].st = "none"
        /\ call[j].phase = "polling"
        /\ reqFile[j] = JsonRequest(j, call[j].op)
        /\ respFile[j].st = "full" /\ respFile[j].id = j


----------------------------------------------------------------------------
\* C40: a Request Record whose operation the processor does not know is
\* answered with the error Response Record 'Unknown operation: <name>' under
\* the request's id, the session handle is not called for it, and the call of
\* the proxy that read this response raises that error.
HandlesUnknown(t) ==
    /\ ticks[t].st = "scan"
    /\ ticks[t].files /= <<>>
    /\ reqFile[Head(ticks[t].files)].st = "full"
    /\ reqFile[Head(ticks[t].files)].op \notin KnownOps
    /\ ticks'[t] /= ticks[t]

AnsweredUnknown(t, id) ==
    \/ respFile'[id] = JsonError(id, UnknownMsg)
    \/ /\ respFile'[id].st = "partial"
       /\ ticks'[t].st = "writing"
       /\ ticks'[t].reply = JsonError(id, UnknownMsg)

C40_UnknownOperationRaised ==
    /\ [](\A id \in Ids :
            /\ (call[id].op \notin KnownOps) => dispatched[id] = 0
            /\ (IsEnded(id) /\ call[id].seen = "full" /\ call[id].seenError = UnknownMsg)
                  => call[id].outcome = "remoteError" /\ call[id].val = UnknownMsg)
    /\ [][\A t \in Slots :
            (HandlesUnknown(t) /\ proc' = "up")
                => /\ AnsweredUnknown(t, reqFile[Head(ticks[t].files)].id)
                   /\ dispatched' = dispatched]_vars

====
